---- MODULE Spec2Model ----
(***************************************************************************)
(* Quantitative analytics engine of iswcoin (apps/engine/src/models):      *)
(* RegimeDetector (regime_detector.py), PortfolioOptimizer                 *)
(* (portfolio_optimizer.py) and AnomalyDetector (anomaly_detector.py).     *)
(*                                                                         *)
(* Spec        one RegimeDetector instance and the calls made on it.       *)
(* SpecCvar    PortfolioOptimizer.cvar applied to bounded inputs.          *)
(* SpecMVO     PortfolioOptimizer.mean_variance_optimize.                  *)
(* SpecFlash   AnomalyDetector.detect_flash_crash.                         *)
(* SpecDetect  AnomalyDetector.detect_volume_spike and detect_pump.        *)
(* SpecScan    AnomalyDetector.scan_all.                                   *)
(* SpecVar     PortfolioOptimizer.monte_carlo_var.                         *)
(* SpecFrontier  PortfolioOptimizer.efficient_frontier.                    *)
(* SpecFeatures  RegimeDetector._build_features.                           *)
(* SpecConc    a first fit() interleaved with calls from other threads.    *)
(*                                                                         *)
(* Real numbers are kept exact: a mean is a pair numerator/count, a        *)
(* percentage is an integer number of hundredths, and comparisons are      *)
(* cross-multiplied.  Floating-point rounding is not modelled.             *)
(***************************************************************************)
EXTENDS Integers, Sequences, FiniteSets, TLC

VARIABLES
    n_regimes,   \* self.n_regimes (also the HMM's n_components)
    hmm,         \* self._hmm: "unfit" (no parameters) or "fit" (has transmat_ ...)
    state_map,   \* self._state_map: raw state index -> MarketRegime
    is_fitted,   \* self._is_fitted
    ever_fit,    \* history: TRUE once some fit() call has returned normally
    ret          \* the last call: its operation, inputs and outcome

vars == <<n_regimes, hmm, state_map, is_fitted, ever_fit, ret>>

(***************************************************************************)
(* Bounds of the model.                                                    *)
(***************************************************************************)
MaxRegimes == 5      \* component counts 1..MaxRegimes
PostTotal == 2       \* a posterior row is PostTotal probability units

(***************************************************************************)
(* MarketRegime and _REGIME_LABELS.                                        *)
(***************************************************************************)
BULL_HIGH_VOL == 0
BULL_LOW_VOL == 1
BEAR_HIGH_VOL == 2
BEAR_LOW_VOL == 3

MarketRegime == {BULL_HIGH_VOL, BULL_LOW_VOL, BEAR_HIGH_VOL, BEAR_LOW_VOL}

REGIME_LABELS ==
    [r \in MarketRegime |->
        CASE r = BULL_HIGH_VOL -> "BULL_HIGH_VOL"
          [] r = BULL_LOW_VOL  -> "BULL_LOW_VOL"
          [] r = BEAR_HIGH_VOL -> "BEAR_HIGH_VOL"
          [] r = BEAR_LOW_VOL  -> "BEAR_LOW_VOL"]

DefaultRegimes == 4  \* __init__'s default n_regimes

EmptyMap == [k \in {} |-> 0]

(***************************************************************************)
(* dict.get(key, default)                                                  *)
(***************************************************************************)
DictGet(d, k, default) == IF k \in DOMAIN d THEN d[k] ELSE default

(***************************************************************************)
(* _map_states.  features is a sequence of rows <<return, volatility>>,    *)
(* states the sequence self._hmm.predict(features) returned (one raw state *)
(* per row).  A mean is kept as the pair sum/count: [r, v, c] stands for   *)
(* (r/c, v/c); a state with no row gets (0.0, 0.0).                        *)
(***************************************************************************)
RECURSIVE MaskedSum(_, _, _, _, _)
MaskedSum(features, states, s, col, i) ==
    IF i = 0 THEN 0
    ELSE (IF states[i] = s THEN features[i][col] ELSE 0)
         + MaskedSum(features, states, s, col, i - 1)

StateMeans(n, features, states) ==
    [s \in 0..(n - 1) |->
        LET cnt == Cardinality({i \in 1..Len(features) : states[i] = s})
        IN  IF cnt = 0
            THEN [r |-> 0, v |-> 0, c |-> 1]
            ELSE [r |-> MaskedSum(features, states, s, 1, Len(features)),
                  v |-> MaskedSum(features, states, s, 2, Len(features)),
                  c |-> cnt]]

\* means[a][col] >= means[b][col], cross-multiplied (counts are positive)
KeyGe(means, col, a, b) ==
    IF col = 0
    THEN means[a].r * means[b].c >= means[b].r * means[a].c
    ELSE means[a].v * means[b].c >= means[b].v * means[a].c

\* sorted(keys, key=lambda s: means[s][col], reverse=True): a stable sort,
\* so states with equal keys keep the order they have in keys.
RECURSIVE SortedDesc(_, _, _)
SortedDesc(keys, means, col) ==
    IF keys = <<>> THEN <<>>
    ELSE LET front == SortedDesc(SubSeq(keys, 1, Len(keys) - 1), means, col)
             x == keys[Len(keys)]
             pos == Cardinality({i \in 1..Len(front) : KeyGe(means, col, front[i], x)})
         IN  SubSeq(front, 1, pos) \o <<x>> \o SubSeq(front, pos + 1, Len(front))

HalfCeil(n) == (n + 1) \div 2

\* half = self.n_regimes // 2
Half(n) == n \div 2

BullsNoVolSort(n, means) ==
    LET sorted_states == SortedDesc([i \in 1..n |-> i - 1], means, 0)
    IN  SubSeq(sorted_states, 1, Half(n))

Bulls(n, means) ==
    LET sorted_states == SortedDesc([i \in 1..n |-> i - 1], means, 0)
    IN  SortedDesc(SubSeq(sorted_states, 1, Half(n)), means, 1)

Bears(n, means) ==
    LET sorted_states == SortedDesc([i \in 1..n |-> i - 1], means, 0)
    IN  SortedDesc(SubSeq(sorted_states, Half(n) + 1, n), means, 1)

MapStates(n, means) ==
    LET bulls == Bulls(n, means)
        bears == Bears(n, means)
        keys == {bulls[i] : i \in 1..Len(bulls) \cap 1..2}
                    \cup {bears[i] : i \in 1..Len(bears) \cap 1..2}
    IN  [s \in keys |->
            CASE Len(bears) >= 2 /\ s = bears[2] -> BEAR_LOW_VOL
              [] Len(bears) >= 1 /\ s = bears[1] -> BEAR_HIGH_VOL
              [] Len(bulls) >= 2 /\ s = bulls[2] -> BULL_LOW_VOL
              [] Len(bulls) >= 1 /\ s = bulls[1] -> BULL_HIGH_VOL]

(***************************************************************************)
(* Inputs of fit(): the feature matrix _build_features returned and the    *)
(* decoding self._hmm.predict gives for it (any assignment of rows to raw  *)
(* states).                                                                *)
(***************************************************************************)
FeatureSets ==
    { << <<2, 1>>, <<-1, 3>>, <<-3, 2>> >>,
      << <<1, 2>>, <<2, 1>>, <<3, 3>> >> }

FitInputs(n) ==
    UNION { { <<F, st>> : st \in [1..Len(F) -> 0..(n - 1)] } : F \in FeatureSets }

\* What _map_states computes for every input of fit(), per component count:
\* the mapping assigned to self._state_map.
FitCases ==
    [n \in 1..MaxRegimes |->
        { [features |-> io[1], states |-> io[2],
           mapping |-> MapStates(n, StateMeans(n, io[1], io[2]))] : io \in FitInputs(n) }]

(***************************************************************************)
(* RegimeDetector.__init__                                                 *)
(***************************************************************************)
Init ==
    /\ n_regimes \in 1..MaxRegimes
    /\ hmm = "unfit"
    /\ state_map = EmptyMap
    /\ is_fitted = FALSE
    /\ ever_fit = FALSE
    /\ ret = [op |-> "init", status |-> "ok"]

(***************************************************************************)
(* RegimeDetector.fit.  The call raises in _build_features (stage          *)
(* "features"), in self._hmm.fit ("hmm", which may or may not have         *)
(* initialised the HMM's parameters before raising) or in _map_states      *)
(* ("map", raised by self._hmm.predict before self._state_map is           *)
(* assigned), or it runs to the end.                                       *)
(***************************************************************************)
FitStages == {"features", "hmm", "map"}

FitFailsFlagSet(stage) ==
    /\ hmm' \in (CASE stage = "features" -> {hmm}
                   [] stage = "hmm" -> {hmm, "fit"}
                   [] stage = "map" -> {"fit"})
    /\ is_fitted' = (is_fitted \/ stage = "map")
    /\ ret' = [op |-> "fit", status |-> "error", stage |-> stage]
    /\ UNCHANGED <<n_regimes, state_map, ever_fit>>

FitFailsResets(stage) ==
    /\ hmm' \in (CASE stage = "features" -> {hmm}
                   [] stage = "hmm" -> {hmm, "fit"}
                   [] stage = "map" -> {"fit"})
    /\ is_fitted' = FALSE
    /\ state_map' = EmptyMap
    /\ ret' = [op |-> "fit", status |-> "error", stage |-> stage]
    /\ UNCHANGED <<n_regimes, ever_fit>>

FitFails(stage) ==
    /\ hmm' \in (CASE stage = "features" -> {hmm}
                   [] stage = "hmm" -> {hmm, "fit"}
                   [] stage = "map" -> {"fit"})
    /\ ret' = [op |-> "fit", status |-> "error", stage |-> stage]
    /\ UNCHANGED <<n_regimes, state_map, is_fitted, ever_fit>>

FitSucceeds(case) ==
    /\ hmm' = "fit"
    /\ state_map' = case.mapping
    /\ is_fitted' = TRUE
    /\ ever_fit' = TRUE
    /\ ret' = [op |-> "fit", status |-> "ok",
               features |-> case.features, states |-> case.states]
    /\ UNCHANGED n_regimes

Fit ==
    \/ \E stage \in FitStages : FitFails(stage)
    \/ \E case \in FitCases[n_regimes] : FitSucceeds(case)

(***************************************************************************)
(* RegimeDetector.predict                                                  *)
(***************************************************************************)
RECURSIVE SumTo(_, _)
SumTo(f, i) == IF i < 0 THEN 0 ELSE f[i] + SumTo(f, i - 1)

\* the last row of self._hmm.predict_proba(features): one probability per
\* raw state, PostTotal units in all
Posteriors(n) == {p \in [0..(n - 1) -> 0..PostTotal] : SumTo(p, n - 1) = PostTotal}

ArgMin(p) ==
    CHOOSE i \in DOMAIN p :
        /\ \A j \in DOMAIN p : p[j] >= p[i]
        /\ \A j \in DOMAIN p : j < i => p[j] > p[i]

\* np.argmax: the first index holding the maximum
ArgMax(p) ==
    CHOOSE i \in DOMAIN p :
        /\ \A j \in DOMAIN p : p[j] <= p[i]
        /\ \A j \in DOMAIN p : j < i => p[j] < p[i]

\* the loop filling all_probs: a later raw_idx overwrites an equal label
RECURSIVE AllProbs(_, _, _, _)
AllProbs(raw_idx, last_posterior, map, all_probs) ==
    IF raw_idx \notin DOMAIN last_posterior THEN all_probs
    ELSE LET regime == DictGet(map, raw_idx, raw_idx % 4)
             label == REGIME_LABELS[regime]
         IN  AllProbs(raw_idx + 1, last_posterior, map,
                      [l \in DOMAIN all_probs \cup {label} |->
                          IF l = label THEN last_posterior[raw_idx] ELSE all_probs[l]])

Raise(op, status) ==
    /\ ret' = [op |-> op, status |-> status]
    /\ UNCHANGED <<n_regimes, hmm, state_map, is_fitted, ever_fit>>

\* predict past its guard: _build_features or predict_proba may raise (an
\* empty feature matrix has no last row); otherwise the last row is reported
PredictBody ==
    \/ Raise("predict", "error")
    \/ \E last_posterior \in Posteriors(n_regimes) :
          LET raw_state == ArgMax(last_posterior)
              mapped_regime == DictGet(state_map, raw_state, BULL_LOW_VOL)
          IN  /\ ret' = [op |-> "predict", status |-> "ok",
                         posterior |-> last_posterior,
                         regime |-> mapped_regime,
                         label |-> REGIME_LABELS[mapped_regime],
                         probability |-> last_posterior[raw_state],
                         all_probabilities |->
                             AllProbs(0, last_posterior, state_map, EmptyMap)]
              /\ UNCHANGED <<n_regimes, hmm, state_map, is_fitted, ever_fit>>

PredictUnguarded == PredictBody

Predict ==
    IF ~is_fitted THEN Raise("predict", "not_fitted") ELSE PredictBody

(***************************************************************************)
(* RegimeDetector.get_transition_matrix and get_state_map                  *)
(***************************************************************************)
\* A returned object carries `shared`: whether it is the instance's own
\* object (so that a caller changing it changes the instance) or a new one,
\* and `changed`: whether the caller has changed it since.
ReturnsInternal == TRUE

\* self._hmm.transmat_.copy() is a new array
TransmatShared == FALSE

\* the dict comprehension builds a new dict of (immutable) label strings
StateMapShared == FALSE

GetTransitionMatrix ==
    IF ~is_fitted THEN Raise("get_transition_matrix", "not_fitted")
    ELSE /\ ret' = [op |-> "get_transition_matrix", status |-> "ok",
                    value |-> "transmat_", shared |-> TransmatShared,
                    changed |-> FALSE]
         /\ UNCHANGED <<n_regimes, hmm, state_map, is_fitted, ever_fit>>

GetStateMap ==
    /\ ret' = [op |-> "get_state_map", status |-> "ok",
               value |-> [k \in DOMAIN state_map |-> REGIME_LABELS[state_map[k]]],
               shared |-> StateMapShared, changed |-> FALSE]
    /\ UNCHANGED <<n_regimes, hmm, state_map, is_fitted, ever_fit>>

\* The caller overwrites the matrix it was handed, or clears the dict it was
\* handed; the instance changes with it only if the object is shared.
CallerChangesResult ==
    /\ ret.op \in {"get_transition_matrix", "get_state_map"}
    /\ ret.status = "ok" /\ ~ret.changed
    /\ IF ret.op = "get_transition_matrix"
       THEN /\ ret' = [ret EXCEPT !.value = "overwritten", !.changed = TRUE]
            /\ hmm' = IF ret.shared THEN "overwritten" ELSE hmm
            /\ UNCHANGED state_map
       ELSE /\ ret' = [ret EXCEPT !.value = EmptyMap, !.changed = TRUE]
            /\ state_map' = IF ret.shared THEN EmptyMap ELSE state_map
            /\ UNCHANGED hmm
    /\ UNCHANGED <<n_regimes, is_fitted, ever_fit>>

Next ==
    \/ Fit
    \/ Predict
    \/ GetTransitionMatrix
    \/ GetStateMap
    \/ CallerChangesResult

Spec == Init /\ [][Next]_vars

(***************************************************************************)
(* Properties of the RegimeDetector lifecycle (checked under Spec).        *)
(***************************************************************************)
LastCall(op, status) == ret.op = op /\ ret.status = status

\* C1: on an instance on which no fit() has yet succeeded, every predict()
\* and every get_transition_matrix() call raises "not fitted" and returns no
\* regime or matrix, whatever rejected calls and failed fits came before.
C1_UnfitCallsRejected ==
    (~ever_fit /\ ret.op \in {"predict", "get_transition_matrix"})
        => (ret.status = "not_fitted" /\ DOMAIN ret = {"op", "status"})

\* a predict() rejected after a fit() that failed in _map_states
C1_Witness ==
    ~ever_fit /\ hmm = "fit" /\ LastCall("predict", "not_fitted")

\* C2: get_state_map() on a never-fitted instance is rejected with an error
\* rather than returning a mapping.
C2_StateMapRejectedWhenUnfit ==
    (~ever_fit /\ ret.op = "get_state_map") => ret.status # "ok"

\* C3: fitted is terminal: once a fit() has succeeded the fitted flag is
\* never cleared by any later call, so predict() is never again rejected as
\* "not fitted".
C3_FittedIsTerminal ==
    /\ [][is_fitted => is_fitted']_vars
    /\ [](ever_fit => is_fitted)
    /\ []((ever_fit /\ ret.op = "predict") => ret.status # "not_fitted")

\* a re-fit that failed on an instance fitted before
C3_Witness ==
    ever_fit /\ is_fitted /\ LastCall("fit", "error")

\* C4: a fit() that fails on an instance never successfully fitted leaves it
\* unfit: the flag stays false, the state map stays empty, and a following
\* predict() is still rejected as "not fitted".
C4_FailedFitLeavesUnfit ==
    /\ [][(~ever_fit /\ ret'.op = "fit" /\ ret'.status = "error")
            => (~is_fitted' /\ state_map' = EmptyMap)]_vars
    /\ []((~ever_fit /\ ret.op = "predict") => ret.status = "not_fitted")

\* a first fit() that raised in _map_states, after the HMM was estimated
C4_Witness ==
    /\ ~ever_fit /\ ~is_fitted /\ state_map = EmptyMap
    /\ LastCall("fit", "error") /\ ret.stage = "map" /\ hmm = "fit"

\* The mean return (col 1) and mean volatility (col 2) of raw state s over
\* the rows a fit() assigned to it, as the pair sum / count; 0 / 1 for a
\* state with no row.
RowsOf(s) == {i \in 1..Len(ret.features) : ret.states[i] = s}

RECURSIVE SumRows(_, _)
SumRows(rows, col) ==
    IF rows = {} THEN 0
    ELSE LET i == CHOOSE j \in rows : TRUE
         IN  ret.features[i][col] + SumRows(rows \ {i}, col)

MeanGe(a, b, col) ==
    LET ca == IF RowsOf(a) = {} THEN 1 ELSE Cardinality(RowsOf(a))
        cb == IF RowsOf(b) = {} THEN 1 ELSE Cardinality(RowsOf(b))
    IN  SumRows(RowsOf(a), col) * cb >= SumRows(RowsOf(b), col) * ca

IsBull(r) == r \in {BULL_HIGH_VOL, BULL_LOW_VOL}

C6_PredictReportsLastRow ==
    (n_regimes = DefaultRegimes /\ LastCall("predict", "ok")) =>
        LET p == ret.posterior
            ap == ret.all_probabilities
        IN  /\ \E s \in DOMAIN p :
                  /\ \A j \in DOMAIN p : p[j] <= p[s]
                  /\ ret.regime = state_map[s]
                  /\ ret.label = REGIME_LABELS[state_map[s]]
                  /\ ret.probability = p[s]
            /\ DOMAIN ap = {REGIME_LABELS[r] : r \in MarketRegime}
            /\ \A s \in DOMAIN p : ap[REGIME_LABELS[state_map[s]]] = p[s]
            /\ \A l \in DOMAIN ap : ap[l] <= ret.probability
            /\ SumTo([r \in MarketRegime |-> ap[REGIME_LABELS[r]]], 3) = PostTotal

\* a prediction with two raw states tied for the highest posterior
C6_Witness ==
    /\ n_regimes = DefaultRegimes /\ LastCall("predict", "ok")
    /\ ret.posterior = (0 :> 0 @@ 1 :> 1 @@ 2 :> 0 @@ 3 :> 1)
    /\ ret.regime = state_map[1]
    /\ ret.probability = 1

\* C7: for every component count, all_probabilities holds, for each raw
\* state that has a mapping, that state's last-row posterior under its
\* mapped label.
C7_MappedStatesReported ==
    LastCall("predict", "ok") =>
        \A s \in DOMAIN state_map :
            /\ REGIME_LABELS[state_map[s]] \in DOMAIN ret.all_probabilities
            /\ ret.all_probabilities[REGIME_LABELS[state_map[s]]] = ret.posterior[s]

\* C24: predict(), get_transition_matrix() and get_state_map() are read-only
\* on a fitted instance: they leave the fitted flag, the HMM and the state
\* map unchanged, and a caller changing the matrix or the map it was handed
\* changes neither, so a later get_state_map() still returns the labels of
\* the fitted map.
C24_ReadOnlyCalls ==
    /\ [][(is_fitted /\ ret'.op \in {"predict", "get_transition_matrix",
                                      "get_state_map"})
            => (is_fitted' /\ state_map' = state_map /\ hmm' = hmm)]_vars
    /\ []((ret.op = "get_state_map" /\ ~ret.changed) =>
             ret.value = [k \in DOMAIN state_map |-> REGIME_LABELS[state_map[k]]])
    /\ []((LastCall("get_transition_matrix", "ok") /\ ~ret.changed) =>
             (hmm = "fit" /\ ret.value = "transmat_"))

\* the caller has cleared the dict get_state_map() returned on a fitted
\* instance, whose own map is still the fitted one
C24_Witness ==
    /\ is_fitted /\ hmm = "fit" /\ state_map # EmptyMap
    /\ LastCall("get_state_map", "ok") /\ ret.changed
    /\ ret.value = EmptyMap

\* C26: after fit(), every raw state whose mean return is positive is mapped
\* to a BULL label and every raw state whose mean return is zero or negative
\* is mapped to a BEAR label.
C26_SignDecidesGroup ==
    LastCall("fit", "ok") =>
        \A s \in 0..(n_regimes - 1) :
            /\ s \in DOMAIN state_map
            /\ IsBull(state_map[s]) <=> SumRows(RowsOf(s), 1) > 0

Min2(k) == IF k < 2 THEN k ELSE 2

C28_PredictionSelfConsistent ==
    LastCall("predict", "ok") =>
        /\ ret.label = REGIME_LABELS[ret.regime]
        /\ ret.label \in DOMAIN ret.all_probabilities
        /\ ret.all_probabilities[ret.label] = ret.probability

(***************************************************************************)
(* PortfolioOptimizer.cvar.  returns is a sequence of T rows of n_assets   *)
(* integers, confidence a whole percentage, weights a sequence of n_assets *)
(* integers or <<>> for None.  The portfolio returns are kept as integers  *)
(* over a common positive denominator (n_assets for the equal weights      *)
(* 1/n_assets, 1 for given weights); the result is the pair num / den.     *)
(***************************************************************************)
MaxObs == 3          \* rows of a returns matrix: 1..MaxObs
MaxAssets == 2       \* columns of a returns matrix: 1..MaxAssets

ReturnVals == {-1, 2}
ConfidencePcts == {50, 95, 100}
WeightVals == {-1, 1}

RECURSIVE Dot(_, _, _)
Dot(row, w, i) == IF i = 0 THEN 0 ELSE row[i] * w[i] + Dot(row, w, i - 1)

\* returns @ weights, scaled by the weights' common denominator
PortReturns(returns, weights) ==
    LET n_assets == Len(returns[1])
        w == IF weights = <<>> THEN [i \in 1..n_assets |-> 1] ELSE weights
    IN  [i \in 1..Len(returns) |-> Dot(returns[i], w, n_assets)]

WeightDen(returns, weights) == IF weights = <<>> THEN Len(returns[1]) ELSE 1

\* the k-th smallest element (k from 0) of a non-empty sequence
OrderStat(xs, k) ==
    CHOOSE v \in {xs[i] : i \in 1..Len(xs)} :
        /\ Cardinality({i \in 1..Len(xs) : xs[i] < v}) <= k
        /\ Cardinality({i \in 1..Len(xs) : xs[i] <= v}) > k

\* 100 * np.percentile(xs, 100 - confidence): linear interpolation between
\* the two order statistics around position (100 - confidence)/100 * (T - 1)
Percentile100(xs, confidence) ==
    LET pos100 == (100 - confidence) * (Len(xs) - 1)
        lo == pos100 \div 100
        hi == IF lo + 1 < Len(xs) THEN lo + 1 ELSE lo
        frac == pos100 % 100
    IN  100 * OrderStat(xs, lo) + frac * (OrderStat(xs, hi) - OrderStat(xs, lo))

RECURSIVE SumSet(_, _)
SumSet(xs, idx) ==
    IF idx = {} THEN 0
    ELSE LET i == CHOOSE j \in idx : TRUE IN xs[i] + SumSet(xs, idx \ {i})

Cvar(returns, confidence, weights) ==
    LET port_returns == PortReturns(returns, weights)
        cutoff100 == Percentile100(port_returns, confidence)
        tail == {i \in 1..Len(port_returns) : 100 * port_returns[i] <= cutoff100}
    IN  IF tail = {} THEN [num |-> 0, den |-> 1]
        ELSE [num |-> -SumSet(port_returns, tail),
              den |-> Cardinality(tail) * WeightDen(returns, weights)]

\* the fields of a detector that no portfolio or anomaly call touches
DetectorIdle ==
    /\ n_regimes = DefaultRegimes
    /\ hmm = "unfit"
    /\ state_map = EmptyMap
    /\ is_fitted = FALSE
    /\ ever_fit = FALSE

InitCvar ==
    /\ DetectorIdle
    /\ \E n \in 1..MaxAssets, T \in 1..MaxObs :
          \E R \in [1..T -> [1..n -> ReturnVals]],
             c \in ConfidencePcts,
             w \in {<<>>} \cup [1..n -> WeightVals] :
              ret = [op |-> "cvar", status |-> "call", returns |-> R,
                     confidence |-> c, weights |-> w]

CvarCall ==
    /\ ret.op = "cvar" /\ ret.status = "call"
    /\ ret' = [ret EXCEPT !.status = "ok"] @@
              [result |-> Cvar(ret.returns, ret.confidence, ret.weights)]
    /\ UNCHANGED <<n_regimes, hmm, state_map, is_fitted, ever_fit>>

NextCvar == CvarCall

SpecCvar == InitCvar /\ [][NextCvar]_vars

\* C8: cvar(returns, confidence, weights) returns a non-negative number for
\* every returns matrix, confidence level and weight vector.
C8_CvarNonNegative ==
    (ret.op = "cvar" /\ ret.status = "ok") => ret.result.num >= 0

(***************************************************************************)
(* PortfolioOptimizer.mean_variance_optimize.  A weight is a whole number  *)
(* of units, WeightUnits of them making 1.0.  scipy's SLSQP is outside the *)
(* repository: a solve that reports success returns a point meeting the    *)
(* constraints and bounds it was given; one that does not (iteration       *)
(* limit, failed line search, an objective that is NaN because np.cov of a *)
(* single row is NaN) returns its last iterate, which may be any point.    *)
(***************************************************************************)
WeightUnits == 2     \* 1.0 is WeightUnits weight units

RECURSIVE SumSeq(_, _)
SumSeq(xs, i) == IF i = 0 THEN 0 ELSE xs[i] + SumSeq(xs, i - 1)

\* the constraint sum(w) - 1 = 0 and, unless allow_short, bounds (0.0, 1.0)
Feasible(x, allow_short) ==
    /\ SumSeq(x, Len(x)) = WeightUnits
    /\ allow_short \/ \A i \in 1..Len(x) : 0 <= x[i] /\ x[i] <= WeightUnits

\* optimize.minimize(neg_utility, x0, method="SLSQP", bounds, constraints)
Minimize(n_assets, allow_short) ==
    { r \in [x : [1..n_assets -> (-1)..(WeightUnits + 1)], success : BOOLEAN] :
        r.success => Feasible(r.x, allow_short) }

InitMVO ==
    /\ DetectorIdle
    /\ \E n \in 1..MaxAssets, T \in 1..MaxObs :
          \E R \in [1..T -> [1..n -> ReturnVals]], a \in BOOLEAN :
              ret = [op |-> "mean_variance_optimize", status |-> "call",
                     returns |-> R, allow_short |-> a]

\* a variant that raises when the solver does not report success
MeanVarianceOptimizeChecked ==
    /\ ret.op = "mean_variance_optimize" /\ ret.status = "call"
    /\ IF Len(ret.returns[1]) < 2
       THEN ret' = [ret EXCEPT !.status = "error"]
       ELSE \E result \in Minimize(Len(ret.returns[1]), ret.allow_short) :
               IF result.success
               THEN ret' = [ret EXCEPT !.status = "ok"] @@
                           [result |-> result.x, solver_success |-> TRUE]
               ELSE ret' = [ret EXCEPT !.status = "error"]
    /\ UNCHANGED <<n_regimes, hmm, state_map, is_fitted, ever_fit>>

\* np.cov of a single column is 0-dimensional, so w @ cov @ w raises
\* ValueError at the solver's first evaluation of neg_utility; otherwise
\* result.x is returned, result.success is not read
MeanVarianceOptimize ==
    /\ ret.op = "mean_variance_optimize" /\ ret.status = "call"
    /\ IF Len(ret.returns[1]) < 2
       THEN ret' = [ret EXCEPT !.status = "error"]
       ELSE \E result \in Minimize(Len(ret.returns[1]), ret.allow_short) :
               ret' = [ret EXCEPT !.status = "ok"] @@
                      [result |-> result.x, solver_success |-> result.success]
    /\ UNCHANGED <<n_regimes, hmm, state_map, is_fitted, ever_fit>>

NextMVO == MeanVarianceOptimize

SpecMVO == InitMVO /\ [][NextMVO]_vars

\* C9: every weight vector returned by mean_variance_optimize sums to 1 and,
\* when allow_short is false, has every component in [0, 1].
C9_WeightsFeasible ==
    (ret.op = "mean_variance_optimize" /\ ret.status = "ok") =>
        /\ SumSeq(ret.result, Len(ret.result)) = WeightUnits
        /\ ~ret.allow_short =>
              \A i \in 1..Len(ret.result) :
                  0 <= ret.result[i] /\ ret.result[i] <= WeightUnits

\* C23: mean_variance_optimize returns the solver's final weight vector
\* whether or not the solver reports convergence: non-convergence never makes
\* the call raise, and the value returned is a bare weight vector, one
\* weight per asset, the solver's final iterate in both cases.
C23_ReturnsFinalIterate ==
    (ret.op = "mean_variance_optimize" /\ ret.status # "call") =>
        /\ ret.status = "error" => Len(ret.returns[1]) < 2
        /\ ret.status = "ok" =>
              /\ DOMAIN ret.result = 1..Len(ret.returns[1])
              /\ \A i \in DOMAIN ret.result : ret.result[i] \in Int
              /\ [x |-> ret.result, success |-> ret.solver_success]
                     \in Minimize(Len(ret.returns[1]), ret.allow_short)

\* a solve that did not converge, whose infeasible iterate is returned
C23_Witness ==
    /\ ret.op = "mean_variance_optimize" /\ ret.status = "ok"
    /\ ~ret.solver_success
    /\ ~Feasible(ret.result, ret.allow_short)

(***************************************************************************)
(* AnomalyDetector.  A price is the exact number w + e * 1e-10, kept as    *)
(* the pair [w, e] of integers; with |e| far below 1e10 two such numbers   *)
(* compare by w first and e second.  A threshold is a whole percentage.    *)
(***************************************************************************)
MaxLen == 3          \* a generated series has 0..MaxLen observations

Num(w, e) == [w |-> w, e |-> e]
Epsilon == Num(0, 1)                       \* the guard 1e-10
Plus(a, b) == Num(a.w + b.w, a.e + b.e)
Times(k, a) == Num(k * a.w, k * a.e)       \* k an integer
Leq(a, b) == a.w < b.w \/ (a.w = b.w /\ a.e <= b.e)
Positive(a) == ~Leq(a, Num(0, 0))

\* a / den - 1.0 <= pct / 100 for the numbers a, den: the quotient as numpy
\* gives it (x/0.0 is inf, -inf or nan)
QuotientMinusOneLeq(a, den, pct) ==
    IF Positive(den) THEN Leq(Times(100, a), Times(100 + pct, den))
    ELSE IF den = Num(0, 0) THEN ~Leq(Num(0, 0), a)
    ELSE Leq(Times(100 + pct, den), Times(100, a))

DetectFlashCrashOffByOne(prices, threshold, window) ==
    IF Len(prices) < window + 1 THEN FALSE
    ELSE QuotientMinusOneLeq(prices[Len(prices)],
                             Plus(prices[Len(prices) - window + 1], Epsilon),
                             threshold)

\* without the length guard's early return of False
DetectFlashCrashShortTrue(prices, threshold, window) ==
    IF Len(prices) < window + 1 THEN TRUE
    ELSE QuotientMinusOneLeq(prices[Len(prices)],
                             Plus(prices[Len(prices) - window], Epsilon),
                             threshold)

\* prices[-1] is prices[Len(prices)], prices[-window - 1] is
\* prices[Len(prices) - window]
DetectFlashCrash(prices, threshold, window) ==
    IF Len(prices) < window + 1 THEN FALSE
    ELSE QuotientMinusOneLeq(prices[Len(prices)],
                             Plus(prices[Len(prices) - window], Epsilon),
                             threshold)

DefaultCrashThreshold == -5     \* threshold: float = -0.05
DefaultCrashWindow == 5         \* window: int = 5

PriceVals == {Num(0, 1), Num(94, 0), Num(95, 0), Num(95, 1), Num(100, 0), Num(100, 1)}

Flat100Then(last) ==
    <<Num(100, 0), Num(100, 0), Num(100, 0), Num(100, 0), Num(100, 0), Num(last, 0)>>

InitFlash ==
    /\ DetectorIdle
    /\ \/ \E k \in 0..MaxLen :
             \E ps \in [1..k -> PriceVals],
                t \in {DefaultCrashThreshold, -50},
                w \in 1..MaxLen :
                 ret = [op |-> "detect_flash_crash", status |-> "call",
                        prices |-> ps, threshold |-> t, window |-> w]
       \/ \E last \in {94, 95, 96} :
             ret = [op |-> "detect_flash_crash", status |-> "call",
                    prices |-> Flat100Then(last),
                    threshold |-> DefaultCrashThreshold,
                    window |-> DefaultCrashWindow]

DetectFlashCrashCall ==
    /\ ret.op = "detect_flash_crash" /\ ret.status = "call"
    /\ ret' = [ret EXCEPT !.status = "ok"] @@
              [result |-> DetectFlashCrash(ret.prices, ret.threshold, ret.window)]
    /\ UNCHANGED <<n_regimes, hmm, state_map, is_fitted, ever_fit>>

NextFlash == DetectFlashCrashCall

SpecFlash == InitFlash /\ [][NextFlash]_vars

FlashDone == ret.op = "detect_flash_crash" /\ ret.status = "ok"
LastPrice == ret.prices[Len(ret.prices)]
BasePrice == ret.prices[Len(ret.prices) - ret.window]

\* C10 as stated: detect_flash_crash is true exactly when prices has at
\* least window + 1 observations and the return from prices[-window-1] to
\* prices[-1], last / base - 1, is at or below threshold.
C10_ExactReturn ==
    (FlashDone /\ Len(ret.prices) >= ret.window + 1 /\ Positive(BasePrice)) =>
        (ret.result <=> Leq(Times(100, LastPrice), Times(100 + ret.threshold, BasePrice)))

\* C10 (amended): detect_flash_crash is true exactly when prices has at
\* least window + 1 observations and last / (base + 1e-10) - 1 is at or
\* below threshold; with the defaults it is true for [100]*5 + [94] and
\* false for [100]*5 + [96].
C10_GuardedReturn ==
    FlashDone =>
        /\ ret.result <=>
              (/\ Len(ret.prices) >= ret.window + 1
               /\ Leq(Times(100, LastPrice),
                      Times(100 + ret.threshold, Plus(BasePrice, Epsilon))))
        /\ (/\ ret.prices = Flat100Then(94)
            /\ ret.threshold = DefaultCrashThreshold
            /\ ret.window = DefaultCrashWindow) => ret.result
        /\ (/\ ret.prices = Flat100Then(96)
            /\ ret.threshold = DefaultCrashThreshold
            /\ ret.window = DefaultCrashWindow) => ~ret.result

\* a crash reported on varied prices: 100 -> 95 -> 94 over a window of 2
C10_Witness ==
    /\ FlashDone /\ ret.result
    /\ ret.prices = <<Num(100, 0), Num(95, 0), Num(94, 0)>>
    /\ ret.window = 2 /\ ret.threshold = DefaultCrashThreshold

(***************************************************************************)
(* AnomalyDetector.detect_volume_spike and detect_pump.  Volumes are       *)
(* numbers w + e * 1e-10 like prices.  A volume multiplier is a whole      *)
(* number of tenths (3.0 is 30), a price threshold a whole percentage.     *)
(* The mean of the window bars before the last one is kept as their sum:   *)
(* x >= t * (mean + 1e-10) is window * x >= t * (sum + window * 1e-10).    *)
(***************************************************************************)
Zero == Num(0, 0)
Neg(a) == Num(-a.w, -a.e)
Minus(a, b) == Plus(a, Neg(b))

\* xs[lo] + ... + xs[hi]
RECURSIVE SumBars(_, _, _)
SumBars(xs, lo, hi) ==
    IF hi < lo THEN Zero ELSE Plus(xs[hi], SumBars(xs, lo, hi - 1))

\* window * xs[-window - 1:-1].mean(): the slice is xs[Len - window] ..
\* xs[Len - 1], the last bar left out
TrailingSum(xs, window) == SumBars(xs, Len(xs) - window, Len(xs) - 1)

\* a / den - 1.0 >= pct / 100 for the numbers a, den, the quotient as numpy
\* gives it (x/0.0 is inf, -inf or nan)
QuotientMinusOneGeq(a, den, pct) ==
    IF Positive(den) THEN Leq(Times(100 + pct, den), Times(100, a))
    ELSE IF den = Zero THEN Positive(a)
    ELSE Leq(Times(100, a), Times(100 + pct, den))

DetectPumpEither(prices, volumes, price_threshold, vol_threshold, window) ==
    IF Len(prices) < window + 1 \/ Len(volumes) < window + 1 THEN FALSE
    ELSE \/ QuotientMinusOneGeq(prices[Len(prices)],
                                Plus(prices[Len(prices) - window], Epsilon),
                                price_threshold)
         \/ Leq(Times(vol_threshold,
                      Plus(TrailingSum(volumes, window), Times(window, Epsilon))),
                Times(10 * window, volumes[Len(volumes)]))

\* the price condition taken on the size of the move, up or down
DetectPumpAbsReturn(prices, volumes, price_threshold, vol_threshold, window) ==
    IF Len(prices) < window + 1 \/ Len(volumes) < window + 1 THEN FALSE
    ELSE LET recent_den == Plus(prices[Len(prices) - window], Epsilon)
         IN  /\ \/ QuotientMinusOneGeq(prices[Len(prices)], recent_den,
                                       price_threshold)
                \/ QuotientMinusOneLeq(prices[Len(prices)], recent_den,
                                       0 - price_threshold)
             /\ Leq(Times(vol_threshold,
                          Plus(TrailingSum(volumes, window), Times(window, Epsilon))),
                    Times(10 * window, volumes[Len(volumes)]))

DetectPump(prices, volumes, price_threshold, vol_threshold, window) ==
    IF Len(prices) < window + 1 \/ Len(volumes) < window + 1 THEN FALSE
    ELSE LET recent_den == Plus(prices[Len(prices) - window], Epsilon)
             mean_volume == TrailingSum(volumes, window)
             current_volume == volumes[Len(volumes)]
             price_surged ==
                 QuotientMinusOneGeq(prices[Len(prices)], recent_den, price_threshold)
             volume_surged ==
                 Leq(Times(vol_threshold, Plus(mean_volume, Times(window, Epsilon))),
                     Times(10 * window, current_volume))
         IN  price_surged /\ volume_surged

\* the mean taken over the last window bars, the current bar among them
DetectVolumeSpikeWithLast(volumes, threshold, window) ==
    IF Len(volumes) < window + 1 THEN FALSE
    ELSE Leq(Times(threshold,
                   Plus(SumBars(volumes, Len(volumes) - window + 1, Len(volumes)),
                        Times(window, Epsilon))),
             Times(10 * window, volumes[Len(volumes)]))

DetectVolumeSpike(volumes, threshold, window) ==
    IF Len(volumes) < window + 1 THEN FALSE
    ELSE LET mean_vol == TrailingSum(volumes, window)
         IN  Leq(Times(threshold, Plus(mean_vol, Times(window, Epsilon))),
                 Times(10 * window, volumes[Len(volumes)]))

DetectLiquidityCrisis(orderbook_depth, threshold, window) ==
    IF Len(orderbook_depth) < window + 1 THEN FALSE
    ELSE LET mean_depth == TrailingSum(orderbook_depth, window)
         IN  Leq(Times(10 * window, orderbook_depth[Len(orderbook_depth)]),
                 Times(threshold, Plus(mean_depth, Times(window, Epsilon))))

DefaultPumpPrice == 10          \* price_threshold: float = 0.10
DefaultPumpVolume == 30         \* vol_threshold: float = 3.0
DefaultPumpWindow == 5          \* window: int = 5
DefaultSpikeThreshold == 30     \* threshold: float = 3.0
DefaultSpikeWindow == 20        \* window: int = 20
DefaultCrisisThreshold == 3     \* threshold: float = 0.3
DefaultCrisisWindow == 10       \* window: int = 10

\* k bars at base followed by one bar at last
FlatThen(base, k, last) == [i \in 1..(k + 1) |-> IF i <= k THEN base ELSE last]

VolumeVals == {Num(10, 0), Num(20, 0), Num(30, 0), Num(30, 3)}
PumpPrices == {Num(100, 0), Num(110, 0), Num(120, 0)}
PumpVolumes == {Num(10, 0), Num(30, 0), Num(40, 0)}

InitDetect ==
    /\ DetectorIdle
    /\ \/ \E k \in 0..MaxLen :
             \E vs \in [1..k -> VolumeVals], w \in 1..MaxLen :
                 ret = [op |-> "detect_volume_spike", status |-> "call",
                        volumes |-> vs, threshold |-> DefaultSpikeThreshold,
                        window |-> w]
       \/ \E last \in {25, 30, 35} :
             ret = [op |-> "detect_volume_spike", status |-> "call",
                    volumes |-> FlatThen(Num(10, 0), DefaultSpikeWindow, Num(last, 0)),
                    threshold |-> DefaultSpikeThreshold,
                    window |-> DefaultSpikeWindow]
       \/ \E k \in 0..MaxLen, j \in 0..MaxLen :
             \E ps \in [1..k -> PumpPrices], vs \in [1..j -> PumpVolumes],
                w \in 1..MaxLen :
                 ret = [op |-> "detect_pump", status |-> "call",
                        prices |-> ps, volumes |-> vs,
                        price_threshold |-> DefaultPumpPrice,
                        vol_threshold |-> DefaultPumpVolume, window |-> w]
       \/ \E last \in {110, 120}, vol \in {30, 40} :
             ret = [op |-> "detect_pump", status |-> "call",
                    prices |-> FlatThen(Num(100, 0), DefaultPumpWindow, Num(last, 0)),
                    volumes |-> FlatThen(Num(10, 0), DefaultPumpWindow, Num(vol, 0)),
                    price_threshold |-> DefaultPumpPrice,
                    vol_threshold |-> DefaultPumpVolume,
                    window |-> DefaultPumpWindow]

DetectVolumeSpikeCall ==
    /\ ret.op = "detect_volume_spike" /\ ret.status = "call"
    /\ ret' = [ret EXCEPT !.status = "ok"] @@
              [result |-> DetectVolumeSpike(ret.volumes, ret.threshold, ret.window)]
    /\ UNCHANGED <<n_regimes, hmm, state_map, is_fitted, ever_fit>>

DetectPumpCall ==
    /\ ret.op = "detect_pump" /\ ret.status = "call"
    /\ ret' = [ret EXCEPT !.status = "ok"] @@
              [result |-> DetectPump(ret.prices, ret.volumes, ret.price_threshold,
                                     ret.vol_threshold, ret.window)]
    /\ UNCHANGED <<n_regimes, hmm, state_map, is_fitted, ever_fit>>

NextDetect == DetectVolumeSpikeCall \/ DetectPumpCall

SpecDetect == InitDetect /\ [][NextDetect]_vars

SpikeDone == ret.op = "detect_volume_spike" /\ ret.status = "ok"
PumpDone == ret.op = "detect_pump" /\ ret.status = "ok"

\* the bars of xs at the positions idx, added up
RECURSIVE SumAt(_, _)
SumAt(xs, idx) ==
    IF idx = {} THEN Zero
    ELSE LET i == CHOOSE j \in idx : TRUE IN Plus(xs[i], SumAt(xs, idx \ {i}))

\* the window bars before the last bar of xs
BarsBefore(xs, window) == {i \in 1..Len(xs) : Len(xs) - window <= i /\ i < Len(xs)}

\* C11: detect_volume_spike compares the last volume with threshold times
\* the mean (carrying its 1e-10 guard) of exactly the window bars before it,
\* the last bar not among them; with the defaults it is true for twenty 10s
\* followed by 35 and false for twenty 10s followed by 25.
C11_TrailingMeanCompared ==
    SpikeDone =>
        /\ ret.result <=>
              (/\ Len(ret.volumes) >= ret.window + 1
               /\ Cardinality(BarsBefore(ret.volumes, ret.window)) = ret.window
               /\ Leq(Times(ret.threshold,
                            Plus(SumAt(ret.volumes, BarsBefore(ret.volumes, ret.window)),
                                 Times(ret.window, Epsilon))),
                      Times(10 * ret.window, ret.volumes[Len(ret.volumes)])))
        /\ (/\ ret.volumes = FlatThen(Num(10, 0), 20, Num(35, 0))
            /\ ret.threshold = DefaultSpikeThreshold
            /\ ret.window = DefaultSpikeWindow) => ret.result
        /\ (/\ ret.volumes = FlatThen(Num(10, 0), 20, Num(25, 0))
            /\ ret.threshold = DefaultSpikeThreshold
            /\ ret.window = DefaultSpikeWindow) => ~ret.result

\* a spike found over a window of 1: the bar before the last is 10 and the
\* last is 30 + 3e-10 = 3.0 * (10 + 1e-10); the first bar, 20, is outside
\* the window
C11_Witness ==
    /\ SpikeDone /\ ret.result
    /\ ret.volumes = <<Num(20, 0), Num(10, 0), Num(30, 3)>>
    /\ ret.window = 1

\* C12: the threshold comparisons are inclusive: detect_volume_spike is
\* true when the last volume is exactly threshold times the trailing mean,
\* and detect_pump is true when the window return is exactly
\* price_threshold and the last volume exactly vol_threshold times the
\* trailing mean.
C12_InclusiveThresholds ==
    /\ (/\ SpikeDone
        /\ Len(ret.volumes) >= ret.window + 1
        /\ Times(10 * ret.window, ret.volumes[Len(ret.volumes)]) =
               Times(ret.threshold, TrailingSum(ret.volumes, ret.window)))
           => ret.result
    /\ (/\ PumpDone
        /\ Len(ret.prices) >= ret.window + 1
        /\ Len(ret.volumes) >= ret.window + 1
        /\ Times(100, ret.prices[Len(ret.prices)]) =
               Times(100 + ret.price_threshold, ret.prices[Len(ret.prices) - ret.window])
        /\ Times(10 * ret.window, ret.volumes[Len(ret.volumes)]) =
               Times(ret.vol_threshold, TrailingSum(ret.volumes, ret.window)))
           => ret.result

\* the window return last / base - 1 is at or above price_threshold
PriceAtOrAbove ==
    /\ Len(ret.prices) >= ret.window + 1
    /\ Leq(Times(100 + ret.price_threshold, ret.prices[Len(ret.prices) - ret.window]),
           Times(100, ret.prices[Len(ret.prices)]))

\* the last volume is at or above vol_threshold times the mean of the
\* window bars before it
VolumeAtOrAbove ==
    /\ Len(ret.volumes) >= ret.window + 1
    /\ Leq(Times(ret.vol_threshold,
                 SumAt(ret.volumes, BarsBefore(ret.volumes, ret.window))),
           Times(10 * ret.window, ret.volumes[Len(ret.volumes)]))

\* C13: detect_pump returns true only when the window return is at or above
\* price_threshold and the last volume is at or above vol_threshold times
\* the mean of the window bars before the last bar; a price surge without
\* the volume surge, a volume surge without the price surge, or either
\* series shorter than window + 1 returns false.
C13_PumpNeedsBoth ==
    PumpDone =>
        /\ ret.result => (PriceAtOrAbove /\ VolumeAtOrAbove)
        /\ (PriceAtOrAbove /\ ~VolumeAtOrAbove) => ~ret.result
        /\ (VolumeAtOrAbove /\ ~PriceAtOrAbove) => ~ret.result
        /\ (Len(ret.prices) < ret.window + 1 \/ Len(ret.volumes) < ret.window + 1)
               => ~ret.result

\* a pump found over a window of 2: price 100 -> 120, volume 10, 10 -> 40
C13_Witness ==
    /\ PumpDone /\ ret.result
    /\ ret.prices = <<Num(100, 0), Num(110, 0), Num(120, 0)>>
    /\ ret.volumes = <<Num(10, 0), Num(10, 0), Num(40, 0)>>
    /\ ret.window = 2

(***************************************************************************)
(* AnomalyDetector.scan_all.  market_data is a function from the keys the  *)
(* caller supplied to their series; market_data.get(k) is not None exactly *)
(* when k is in its domain.  A float computed by scan_all is a quotient    *)
(* n / d of two numbers with d >= 0, where d = 0 stands for what numpy     *)
(* gives on a division by 0.0: inf (n > 0), -inf (n < 0) or nan (n = 0).   *)
(* The result is the list of events (type, severity, details); the         *)
(* description is a formatting of the same numbers.                        *)
(***************************************************************************)
MaxLead == 1         \* a generated series has 0..MaxLead bars ahead of its flat run

Quot(a, b) ==
    IF Positive(b) \/ b = Zero THEN [n |-> a, d |-> b]
    ELSE [n |-> Neg(a), d |-> Neg(b)]
MinusOne(q) == [n |-> Minus(q.n, q.d), d |-> q.d]               \* q - 1.0
AbsQ(q) == [n |-> IF Leq(Zero, q.n) THEN q.n ELSE Neg(q.n), d |-> q.d]
Scale(q, num, den) == [n |-> Times(num, q.n), d |-> Times(den, q.d)]
One == [n |-> Num(1, 0), d |-> Num(1, 0)]
ZeroQ == [n |-> Zero, d |-> Num(1, 0)]

\* min(q, 1.0) and max(q, 0.0) as Python computes them: the first argument
\* unless the second is strictly less (greater), so nan stays nan
Min1(q) == IF ~Leq(q.n, q.d) THEN One ELSE q
Max0(q) == IF ~Leq(Zero, q.n) THEN ZeroQ ELSE q

Has(market_data, key) == key \in DOMAIN market_data

\* arr[-k] raises IndexError on fewer than k elements
FlashRaises(prices) ==
    /\ DetectFlashCrash(prices, DefaultCrashThreshold, DefaultCrashWindow)
    /\ Len(prices) < 6

FlashEvents(prices) ==
    IF ~DetectFlashCrash(prices, DefaultCrashThreshold, DefaultCrashWindow) THEN <<>>
    ELSE LET recent_ret == MinusOne(Quot(prices[Len(prices)],
                                         Plus(prices[Len(prices) - 5], Epsilon)))
             severity == Min1(Scale(AbsQ(recent_ret), 5, 1))
         IN  <<[anomaly_type |-> "FLASH_CRASH", severity |-> severity,
                details |-> [return |-> recent_ret]]>>

PumpRaises(prices, volumes) ==
    /\ DetectPump(prices, volumes, DefaultPumpPrice, DefaultPumpVolume, DefaultPumpWindow)
    /\ (Len(prices) < 6 \/ Len(volumes) < 1)

\* volumes_arr[-6:-1] is the up to five bars before the last one
PumpEvents(prices, volumes) ==
    IF ~DetectPump(prices, volumes, DefaultPumpPrice, DefaultPumpVolume,
                   DefaultPumpWindow) THEN <<>>
    ELSE LET recent_ret == MinusOne(Quot(prices[Len(prices)],
                                         Plus(prices[Len(prices) - 5], Epsilon)))
             lo == IF Len(volumes) > 5 THEN Len(volumes) - 5 ELSE 1
             count == Len(volumes) - lo
             vol_ratio == Quot(Times(count, volumes[Len(volumes)]),
                               Plus(SumBars(volumes, lo, Len(volumes) - 1),
                                    Times(count, Epsilon)))
             severity == Min1(Scale(recent_ret, 10, 3))
         IN  <<[anomaly_type |-> "PUMP", severity |-> severity,
                details |-> [return |-> recent_ret, volume_ratio |-> vol_ratio]]>>

\* arr[-window - 1:-1].mean() if len(arr) >= window + 1 else arr[:-1].mean(),
\* as the pair of the bars' sum and their number (the mean of no bars is nan)
MeanBefore(arr, window) ==
    IF Len(arr) >= window + 1
    THEN [sum |-> TrailingSum(arr, window), count |-> window]
    ELSE [sum |-> SumBars(arr, 1, Len(arr) - 1),
          count |-> IF Len(arr) > 0 THEN Len(arr) - 1 ELSE 0]

\* arr[-1] / (mean + 1e-10)
RatioToMean(arr, window) ==
    LET mean == MeanBefore(arr, window)
    IN  IF mean.count = 0 THEN Quot(Zero, Zero)
        ELSE Quot(Times(mean.count, arr[Len(arr)]),
                  Plus(mean.sum, Times(mean.count, Epsilon)))

SpikeRaises(volumes) ==
    /\ DetectVolumeSpike(volumes, DefaultSpikeThreshold, DefaultSpikeWindow)
    /\ Len(volumes) < 1

SpikeEvents(volumes) ==
    IF ~DetectVolumeSpike(volumes, DefaultSpikeThreshold, DefaultSpikeWindow) THEN <<>>
    ELSE LET ratio == RatioToMean(volumes, 20)
             severity == Min1([n |-> Minus(ratio.n, Times(3, ratio.d)),
                               d |-> Times(7, ratio.d)])
         IN  <<[anomaly_type |-> "VOLUME_SPIKE", severity |-> Max0(severity),
                details |-> [volume_ratio |-> ratio]]>>

LiquidityRaises(orderbook_depth) ==
    /\ DetectLiquidityCrisis(orderbook_depth, DefaultCrisisThreshold, DefaultCrisisWindow)
    /\ Len(orderbook_depth) < 1

LiquidityEventsHalf(orderbook_depth) ==
    IF ~DetectLiquidityCrisis(orderbook_depth, 5, DefaultCrisisWindow) THEN <<>>
    ELSE LET ratio == RatioToMean(orderbook_depth, 10)
             severity == Min1([n |-> Times(10, Minus(ratio.d, ratio.n)),
                               d |-> Times(7, ratio.d)])
         IN  <<[anomaly_type |-> "LIQUIDITY_CRISIS", severity |-> Max0(severity),
                details |-> [depth_ratio |-> ratio]]>>

LiquidityEvents(orderbook_depth) ==
    IF ~DetectLiquidityCrisis(orderbook_depth, DefaultCrisisThreshold,
                              DefaultCrisisWindow) THEN <<>>
    ELSE LET ratio == RatioToMean(orderbook_depth, 10)
             severity == Min1([n |-> Times(10, Minus(ratio.d, ratio.n)),
                               d |-> Times(7, ratio.d)])
         IN  <<[anomaly_type |-> "LIQUIDITY_CRISIS", severity |-> Max0(severity),
                details |-> [depth_ratio |-> ratio]]>>

ScanRaises(market_data) ==
    \/ Has(market_data, "prices") /\ FlashRaises(market_data["prices"])
    \/ /\ Has(market_data, "prices") /\ Has(market_data, "volumes")
       /\ PumpRaises(market_data["prices"], market_data["volumes"])
    \/ Has(market_data, "volumes") /\ SpikeRaises(market_data["volumes"])
    \/ /\ Has(market_data, "orderbook_depth")
       /\ LiquidityRaises(market_data["orderbook_depth"])

ScanAllSpikeFirst(market_data) ==
    (IF Has(market_data, "prices")
     THEN FlashEvents(market_data["prices"]) ELSE <<>>)
    \o (IF Has(market_data, "volumes")
        THEN SpikeEvents(market_data["volumes"]) ELSE <<>>)
    \o (IF Has(market_data, "prices") /\ Has(market_data, "volumes")
        THEN PumpEvents(market_data["prices"], market_data["volumes"]) ELSE <<>>)
    \o (IF Has(market_data, "orderbook_depth")
        THEN LiquidityEvents(market_data["orderbook_depth"]) ELSE <<>>)

ScanAll(market_data) ==
    (IF Has(market_data, "prices")
     THEN FlashEvents(market_data["prices"]) ELSE <<>>)
    \o (IF Has(market_data, "prices") /\ Has(market_data, "volumes")
        THEN PumpEvents(market_data["prices"], market_data["volumes"]) ELSE <<>>)
    \o (IF Has(market_data, "volumes")
        THEN SpikeEvents(market_data["volumes"]) ELSE <<>>)
    \o (IF Has(market_data, "orderbook_depth")
        THEN LiquidityEvents(market_data["orderbook_depth"]) ELSE <<>>)

\* no series, or up to MaxLead bars at lead, then a run of bars at pair[1]
\* of one of the lengths runs, then one bar at pair[2]
Bars(lead, runs, pairs) ==
    {<<>>} \cup
    { [i \in 1..j |-> lead] \o FlatThen(p[1], k, p[2]) :
        j \in 0..MaxLead, k \in runs, p \in pairs }

PricePairs ==
    { <<Num(100, 0), Num(70, 0)>>, <<Num(100, 0), Num(94, 0)>>,
      <<Num(100, 0), Num(100, 0)>>, <<Num(100, 0), Num(115, 0)>>,
      <<Num(100, 0), Num(140, 0)>>, <<Num(0, -1), Num(-5, 0)>> }
VolumePairs ==
    { <<Num(10, 0), Num(0, 0)>>, <<Num(10, 0), Num(30, 0)>>,
      <<Num(10, 0), Num(65, 0)>>, <<Num(10, 0), Num(1000, 0)>>,
      <<Num(0, -1), Num(0, 0)>>, <<Num(-10, 0), Num(-5, 0)>> }
DepthPairs ==
    { <<Num(100, 0), Num(15, 0)>>, <<Num(100, 0), Num(30, 0)>>,
      <<Num(100, 0), Num(50, 0)>>, <<Num(100, 0), Num(0, 0)>>,
      <<Num(0, -1), Num(0, 0)>>, <<Num(100, 0), Num(-20, 0)>> }

ScanKeys == {"prices", "volumes", "orderbook_depth"}

InitScan ==
    /\ DetectorIdle
    /\ \E keys \in SUBSET ScanKeys :
          \E ps \in Bars(Num(130, 0), {4, 5}, PricePairs),
             vs \in Bars(Num(50, 0), {4, 5, 19, 20}, VolumePairs),
             ds \in Bars(Num(400, 0), {9, 10}, DepthPairs) :
              /\ "prices" \notin keys => ps = <<>>
              /\ "volumes" \notin keys => vs = <<>>
              /\ "orderbook_depth" \notin keys => ds = <<>>
              /\ ret = [op |-> "scan_all", status |-> "call",
                        market_data |->
                            [k \in keys |->
                                CASE k = "prices" -> ps
                                  [] k = "volumes" -> vs
                                  [] OTHER -> ds]]

ScanAllCall ==
    /\ ret.op = "scan_all" /\ ret.status = "call"
    /\ ret' = IF ScanRaises(ret.market_data)
              THEN [ret EXCEPT !.status = "error"]
              ELSE [ret EXCEPT !.status = "ok"] @@
                   [events |-> ScanAll(ret.market_data)]
    /\ UNCHANGED <<n_regimes, hmm, state_map, is_fitted, ever_fit>>

NextScan == ScanAllCall

SpecScan == InitScan /\ [][NextScan]_vars

ScanDone == ret.op = "scan_all" /\ ret.status # "call"
ScanOk == ret.op = "scan_all" /\ ret.status = "ok"
EventsOf(type) == {i \in 1..Len(ret.events) : ret.events[i].anomaly_type = type}
Series(key) == ret.market_data[key]
Last(xs) == xs[Len(xs)]

\* a severity that is a number in [0, 1], and one strictly inside it
InUnit(q) == Positive(q.d) /\ Leq(Zero, q.n) /\ Leq(q.n, q.d)
StrictlyInside(q) == Positive(q.d) /\ Positive(q.n) /\ ~Leq(q.d, q.n)

\* C14: the severity of a LIQUIDITY_CRISIS event is 0 when the last depth is
\* exactly 0.3 of the mean of the 10 bars before it and strictly between 0
\* and 1 when the depth ratio is strictly between 0 and 0.3.
C14_LiquiditySeverityScales ==
    ScanOk =>
        \A i \in EventsOf("LIQUIDITY_CRISIS") :
            LET depth == Series("orderbook_depth")
                sum10 == SumAt(depth, BarsBefore(depth, 10))
            IN  /\ (Positive(Last(depth)) /\ ~Leq(Times(3, sum10), Times(100, Last(depth))))
                       => StrictlyInside(ret.events[i].severity)
                /\ (Positive(sum10) /\ Times(100, Last(depth)) = Times(3, sum10))
                       => ret.events[i].severity.n = Zero

\* C15: every event returned by scan_all has a severity between 0 and 1
\* inclusive, for any input series.
C15_SeverityInUnitInterval ==
    ScanOk => \A i \in 1..Len(ret.events) : InUnit(ret.events[i].severity)

\* C16: scan_all does not fail on any combination of series lengths, and a
\* series with fewer than window + 1 observations (empty included) yields
\* no event of the types that need it: 6 prices for FLASH_CRASH, 6 prices
\* and 6 volumes for PUMP, 21 volumes for VOLUME_SPIKE, 11 depths for
\* LIQUIDITY_CRISIS.
C16_ShortSeriesInert ==
    ScanDone =>
        /\ ret.status = "ok"
        /\ (Has(ret.market_data, "prices") /\ Len(Series("prices")) < 6)
               => (EventsOf("FLASH_CRASH") = {} /\ EventsOf("PUMP") = {})
        /\ (Has(ret.market_data, "volumes") /\ Len(Series("volumes")) < 6)
               => EventsOf("PUMP") = {}
        /\ (Has(ret.market_data, "volumes") /\ Len(Series("volumes")) < 21)
               => EventsOf("VOLUME_SPIKE") = {}
        /\ (Has(ret.market_data, "orderbook_depth")
              /\ Len(Series("orderbook_depth")) < 11)
               => EventsOf("LIQUIDITY_CRISIS") = {}

\* five prices and no volume bar at all beside a depth series that is long
\* enough and in crisis: the scan returns the one event
C16_Witness ==
    /\ ScanOk
    /\ DOMAIN ret.market_data = ScanKeys
    /\ Len(Series("prices")) = 5
    /\ Series("volumes") = <<>>
    /\ Len(ret.events) = 1
    /\ ret.events[1].anomaly_type = "LIQUIDITY_CRISIS"

TypeRank(type) ==
    CASE type = "FLASH_CRASH" -> 1
      [] type = "PUMP" -> 2
      [] type = "VOLUME_SPIKE" -> 3
      [] type = "LIQUIDITY_CRISIS" -> 4

\* C17: scan_all returns at most one event per anomaly type, in the order
\* FLASH_CRASH, PUMP, VOLUME_SPIKE, LIQUIDITY_CRISIS.
C17_OneEventPerTypeInOrder ==
    ScanOk =>
        \A i, j \in 1..Len(ret.events) :
            i < j => TypeRank(ret.events[i].anomaly_type)
                         < TypeRank(ret.events[j].anomaly_type)

\* a pump, a volume spike and a liquidity crisis found in one scan
C17_Witness ==
    /\ ScanOk
    /\ Len(ret.events) = 3
    /\ ret.events[1].anomaly_type = "PUMP"
    /\ ret.events[2].anomaly_type = "VOLUME_SPIKE"
    /\ ret.events[3].anomaly_type = "LIQUIDITY_CRISIS"

\* C18: scan_all never fails on an absent series, and it includes an event
\* of a type exactly when every series its detector needs is in market_data
\* and the detect_* function with default parameters is true on them.
C18_ScanMatchesDetectors ==
    ScanDone =>
        /\ ret.status = "ok"
        /\ EventsOf("FLASH_CRASH") # {} <=>
              (/\ Has(ret.market_data, "prices")
               /\ DetectFlashCrash(Series("prices"), DefaultCrashThreshold,
                                   DefaultCrashWindow))
        /\ EventsOf("PUMP") # {} <=>
              (/\ Has(ret.market_data, "prices") /\ Has(ret.market_data, "volumes")
               /\ DetectPump(Series("prices"), Series("volumes"), DefaultPumpPrice,
                             DefaultPumpVolume, DefaultPumpWindow))
        /\ EventsOf("VOLUME_SPIKE") # {} <=>
              (/\ Has(ret.market_data, "volumes")
               /\ DetectVolumeSpike(Series("volumes"), DefaultSpikeThreshold,
                                    DefaultSpikeWindow))
        /\ EventsOf("LIQUIDITY_CRISIS") # {} <=>
              (/\ Has(ret.market_data, "orderbook_depth")
               /\ DetectLiquidityCrisis(Series("orderbook_depth"),
                                        DefaultCrisisThreshold, DefaultCrisisWindow))

\* prices that rose 40% scanned without volumes: no pump can be told, and
\* the depth series still gives its event
C18_Witness ==
    /\ ScanOk
    /\ DOMAIN ret.market_data = {"prices", "orderbook_depth"}
    /\ Series("prices") = FlatThen(Num(100, 0), 5, Num(140, 0))
    /\ Len(ret.events) = 1
    /\ ret.events[1].anomaly_type = "LIQUIDITY_CRISIS"

\* C29: scan_all never reports both FLASH_CRASH and PUMP in one result: the
\* 5-bar return of a price series is never both at or below -5% and at or
\* above +10%.
C29_CrashAndPumpExclusive ==
    ScanOk =>
        /\ ~(EventsOf("FLASH_CRASH") # {} /\ EventsOf("PUMP") # {})
        /\ (Has(ret.market_data, "prices") /\ Len(Series("prices")) >= 6) =>
              LET prices == Series("prices")
                  recent_den == Plus(prices[Len(prices) - 5], Epsilon)
              IN  ~(/\ QuotientMinusOneLeq(Last(prices), recent_den,
                                           DefaultCrashThreshold)
                    /\ QuotientMinusOneGeq(Last(prices), recent_den,
                                           DefaultPumpPrice))

\* a crash on surging volume: FLASH_CRASH and VOLUME_SPIKE are reported and
\* the pump's volume condition holds, yet no PUMP
C29_Witness ==
    /\ ScanOk
    /\ EventsOf("FLASH_CRASH") # {} /\ EventsOf("VOLUME_SPIKE") # {}
    /\ EventsOf("PUMP") = {}
    /\ DetectPumpEither(Series("prices"), Series("volumes"), DefaultPumpPrice,
                        DefaultPumpVolume, DefaultPumpWindow)

(***************************************************************************)
(* PortfolioOptimizer.monte_carlo_var, called any number of times among    *)
(* other users of numpy generators.  numpy is outside the repository: a    *)
(* generator made by default_rng(seed) is a deterministic function of the  *)
(* seed, so the first draw of a fresh generator depends only on the seed,  *)
(* the method and its arguments.  ret.drawn records what each such draw    *)
(* turned out to be; a draw not yet recorded may be any sample.  A sample  *)
(* is a sequence of n_sim rows of n_assets integers.  np.cov of a single   *)
(* row is nan and of a single column 0-dimensional: multivariate_normal    *)
(* raises on both.  ret.pinned remembers one earlier call and its result.  *)
(***************************************************************************)
MaxSims == 2         \* n_sim: 1..MaxSims

SimRows == {<<-3, 1>>, <<1, 1>>}
VarReturns == { <<<<-1, 2>>, <<2, -1>>>>, <<<<-1, 2>>>>, <<<<-1>>, <<2>>>> }
VarConfidences == {50, 95}

RngKey(seed, method, returns, horizon, size) ==
    [seed |-> seed, method |-> method, returns |-> returns,
     horizon |-> horizon, size |-> size]

\* a generator seeded from the operating system's entropy
DefaultRngUnseeded(drawn, key) == [1..key.size -> SimRows]

\* the first draw of np.random.default_rng(seed=key.seed)
DefaultRng(drawn, key) ==
    IF key \in DOMAIN drawn THEN {drawn[key]} ELSE [1..key.size -> SimRows]

NoFloor(var) == var

\* max(var, 0.0)
MaxZero(var) == IF 0 > var THEN 0 ELSE var

\* the value monte_carlo_var returns on the sample simulated
VarOf(simulated, confidence) ==
    LET portfolio_returns == PortReturns(simulated, <<>>)
        var100 == -Percentile100(portfolio_returns, confidence)
    IN  [num |-> MaxZero(var100), den |-> 100 * Len(simulated[1])]

CallArgs(returns, confidence, horizon, n_sim) ==
    [returns |-> returns, confidence |-> confidence, horizon |-> horizon,
     n_sim |-> n_sim]

\* the pinned call after one more call: a first call may be pinned
Pin(pinned, pin, args, result) ==
    IF pinned # <<>> THEN <<[pinned[1] EXCEPT !.between = TRUE]>>
    ELSE IF pin THEN <<[args |-> args, result |-> result, between |-> FALSE]>>
    ELSE <<>>

InitVar ==
    /\ DetectorIdle
    /\ ret = [op |-> "init", status |-> "ok", drawn |-> EmptyMap, pinned |-> <<>>]

MonteCarloVar ==
    /\ \E returns \in VarReturns, confidence \in VarConfidences,
          n_sim \in 1..MaxSims, pin \in BOOLEAN :
          LET args == CallArgs(returns, confidence, 1, n_sim)
              n_assets == Len(returns[1])
              key == RngKey(42, "multivariate_normal", returns, 1, n_sim)
          IN  IF Len(returns) < 2 \/ n_assets < 2
              THEN ret' = [op |-> "monte_carlo_var", status |-> "error",
                           args |-> args, drawn |-> ret.drawn,
                           pinned |-> Pin(ret.pinned, FALSE, args, 0)]
              ELSE \E simulated \in DefaultRng(ret.drawn, key) :
                      LET result == VarOf(simulated, confidence)
                      IN  ret' = [op |-> "monte_carlo_var", status |-> "ok",
                                  args |-> args, simulated |-> simulated,
                                  result |-> result,
                                  repeat |-> (/\ ret.pinned # <<>>
                                              /\ ret.pinned[1].args = args),
                                  drawn |-> (key :> simulated) @@ ret.drawn,
                                  pinned |-> Pin(ret.pinned, pin, args, result)]
    /\ UNCHANGED <<n_regimes, hmm, state_map, is_fitted, ever_fit>>

\* the training pipeline's synthetic data: its own default_rng(42), drawing
\* normal variates
GenerateSynthetic ==
    /\ LET key == RngKey(42, "normal", <<>>, 1, 1)
       IN  \E sample \in DefaultRng(ret.drawn, key) :
              ret' = [op |-> "generate_synthetic", status |-> "ok",
                      drawn |-> (key :> sample) @@ ret.drawn,
                      pinned |-> Pin(ret.pinned, FALSE, <<>>, 0)]
    /\ UNCHANGED <<n_regimes, hmm, state_map, is_fitted, ever_fit>>

NextVar == MonteCarloVar \/ GenerateSynthetic

SpecVar == InitVar /\ [][NextVar]_vars

VarDone == ret.op = "monte_carlo_var" /\ ret.status = "ok"

\* 100 * n_assets times the (1 - confidence) percentile of the simulated
\* equal-weight portfolio returns
SimulatedPercentile ==
    Percentile100([i \in 1..Len(ret.simulated) |->
                      SumSeq(ret.simulated[i], Len(ret.simulated[i]))],
                  ret.args.confidence)

\* C19: monte_carlo_var never reports a gain: its result is the negated
\* (1 - confidence) percentile of the simulated equal-weight portfolio
\* returns when that negation is positive, and 0 otherwise.
C19_VarFlooredAtZero ==
    VarDone =>
        /\ ret.result.num >= 0
        /\ ret.result.den = 100 * Len(ret.simulated[1])
        /\ ret.result.num =
               (IF -SimulatedPercentile > 0 THEN -SimulatedPercentile ELSE 0)

\* a simulation whose percentile is a gain, reported as 0
C19_Witness ==
    /\ VarDone
    /\ SimulatedPercentile > 0
    /\ ret.result.num = 0

\* C20: two calls of monte_carlo_var with identical returns, confidence,
\* horizon and n_sim return the identical value, whatever calls were made
\* in between.
C20_Reproducible ==
    (VarDone /\ ret.repeat) => ret.result = ret.pinned[1].result

\* a call repeated after other calls, returning a loss as before
C20_Witness ==
    /\ VarDone /\ ret.repeat
    /\ ret.pinned[1].between
    /\ ret.result.num > 0
    /\ RngKey(42, "normal", <<>>, 1, 1) \in DOMAIN ret.drawn

(***************************************************************************)
(* PortfolioOptimizer.efficient_frontier.  Weights are whole numbers of    *)
(* units as in mean_variance_optimize.  With T rows and column sums S, the *)
(* mean of column i is S[i] / T and (T - 1) * T * T times the sample       *)
(* covariance of columns i and j is the integer CovScaled; the squared     *)
(* volatility w @ cov @ w is kept under that scale, which orders points    *)
(* as their volatility does.  np.cov of a single column is 0-dimensional,  *)
(* so w @ cov raises ValueError as soon as the solver evaluates the        *)
(* objective.  A solve that reports success returns a point meeting its    *)
(* constraints and bounds; the iterate of a failed solve is not used.      *)
(***************************************************************************)
MaxPoints == 3       \* n_points: 0..MaxPoints

FrontierReturns ==
    { << <<-1, 2>>, <<2, 2>> >>,
      << <<-1, 2>>, <<2, -1>> >>,
      << <<2, -1>>, <<2, 2>>, <<-1, -1>> >>,
      << <<-1>>, <<2>> >> }

RECURSIVE ColSum(_, _, _)
ColSum(returns, j, t) ==
    IF t = 0 THEN 0 ELSE returns[t][j] + ColSum(returns, j, t - 1)

RECURSIVE CovScaledSum(_, _, _, _)
CovScaledSum(returns, i, j, t) ==
    IF t = 0 THEN 0
    ELSE LET T == Len(returns)
         IN  (T * returns[t][i] - ColSum(returns, i, T))
                 * (T * returns[t][j] - ColSum(returns, j, T))
             + CovScaledSum(returns, i, j, t - 1)

CovScaled(returns, i, j) == CovScaledSum(returns, i, j, Len(returns))

\* w @ mu, times T and the weight unit
RECURSIVE DotMu(_, _, _)
DotMu(w, returns, i) ==
    IF i = 0 THEN 0
    ELSE w[i] * ColSum(returns, i, Len(returns)) + DotMu(w, returns, i - 1)

\* w @ cov @ w under the scale above
RECURSIVE QuadForm(_, _, _)
QuadForm(w, returns, cell) ==
    IF cell = 0 THEN 0
    ELSE LET n == Len(w)
             i == ((cell - 1) \div n) + 1
             j == ((cell - 1) % n) + 1
         IN  w[i] * w[j] * CovScaled(returns, i, j) + QuadForm(w, returns, cell - 1)

PortfolioVolatility(w, returns) == QuadForm(w, returns, Len(w) * Len(w))

MuSums(returns) == {ColSum(returns, i, Len(returns)) : i \in 1..Len(returns[1])}
MuMin(returns) == CHOOSE m \in MuSums(returns) : \A s \in MuSums(returns) : m <= s
MuMax(returns) == CHOOSE m \in MuSums(returns) : \A s \in MuSums(returns) : m >= s

\* np.linspace(mu.min(), mu.max(), n_points)[k], k from 0, as num / den
\* with den = T * (n_points - 1), or T for a single point
TargetReturn(returns, n_points, k) ==
    IF n_points = 1
    THEN [num |-> MuMin(returns), den |-> Len(returns)]
    ELSE [num |-> (n_points - 1) * MuMin(returns)
                      + k * (MuMax(returns) - MuMin(returns)),
          den |-> Len(returns) * (n_points - 1)]

\* the constraint w @ mu - tr = 0
MeetsTarget(x, returns, target_ret) ==
    DotMu(x, returns, Len(x)) * target_ret.den
        = WeightUnits * Len(returns) * target_ret.num

\* optimize.minimize(portfolio_volatility, x0, method="SLSQP", bounds,
\* constraints) for one target
MinimizeVolatility(returns, target_ret, allow_short) ==
    { [x |-> x, success |-> TRUE] :
        x \in { y \in [1..Len(returns[1]) -> (-1)..(WeightUnits + 1)] :
                  Feasible(y, allow_short) /\ MeetsTarget(y, returns, target_ret) } }
    \cup { [x |-> [i \in 1..Len(returns[1]) |-> 0], success |-> FALSE] }

\* the solver's results for the targets k .. n_points - 1
RECURSIVE Solves(_, _, _, _)
Solves(returns, n_points, k, allow_short) ==
    IF k >= n_points THEN {<<>>}
    ELSE { <<result>> \o rest :
             result \in MinimizeVolatility(returns,
                            TargetReturn(returns, n_points, k), allow_short),
             rest \in Solves(returns, n_points, k + 1, allow_short) }

\* the loop body's test before frontier.append
AppendAlways(result) == TRUE
ResultSuccess(result) == result.success

\* the frontier the loop builds from the results, before it is sorted
RECURSIVE Appended(_, _, _, _)
Appended(returns, n_points, results, k) ==
    IF k = 0 THEN <<>>
    ELSE LET result == results[k]
             front == Appended(returns, n_points, results, k - 1)
         IN  IF ResultSuccess(result)
             THEN Append(front,
                         [risk |-> PortfolioVolatility(result.x, returns),
                          ret |-> TargetReturn(returns, n_points, k - 1),
                          weights |-> result.x])
             ELSE front

NoSort(frontier) == frontier

\* frontier.sort(key=lambda p: p.risk): stable, ascending
RECURSIVE SortByRisk(_)
SortByRisk(frontier) ==
    IF frontier = <<>> THEN <<>>
    ELSE LET front == SortByRisk(SubSeq(frontier, 1, Len(frontier) - 1))
             p == frontier[Len(frontier)]
             pos == Cardinality({i \in 1..Len(front) : front[i].risk <= p.risk})
         IN  SubSeq(front, 1, pos) \o <<p>> \o SubSeq(front, pos + 1, Len(front))

InitFrontier ==
    /\ DetectorIdle
    /\ \E R \in FrontierReturns, n \in 0..MaxPoints, a \in BOOLEAN :
          ret = [op |-> "efficient_frontier", status |-> "call",
                 returns |-> R, n_points |-> n, allow_short |-> a]

EfficientFrontier ==
    /\ ret.op = "efficient_frontier" /\ ret.status = "call"
    /\ IF Len(ret.returns[1]) < 2 /\ ret.n_points >= 1
       THEN ret' = [ret EXCEPT !.status = "error"]
       ELSE \E results \in Solves(ret.returns, ret.n_points, 0, ret.allow_short) :
               ret' = [ret EXCEPT !.status = "ok"] @@
                      [frontier |-> SortByRisk(Appended(ret.returns, ret.n_points,
                                                        results, ret.n_points)),
                       solved |-> [k \in 1..ret.n_points |-> results[k].success]]
    /\ UNCHANGED <<n_regimes, hmm, state_map, is_fitted, ever_fit>>

NextFrontier == EfficientFrontier

SpecFrontier == InitFrontier /\ [][NextFrontier]_vars

FrontierDone == ret.op = "efficient_frontier" /\ ret.status = "ok"

\* C21: the list returned by efficient_frontier is sorted by non-decreasing
\* risk: of every two consecutive points the earlier one's risk is at most
\* the later one's.
C21_SortedByRisk ==
    FrontierDone =>
        \A i \in 1..(Len(ret.frontier) - 1) :
            ret.frontier[i].risk <= ret.frontier[i + 1].risk

\* three targets solved in the order of rising return and falling risk: the
\* returned list starts with the last target's point
C21_Witness ==
    /\ FrontierDone
    /\ Len(ret.frontier) = 3
    /\ ret.frontier[1].risk < ret.frontier[3].risk
    /\ ret.frontier[1].ret = TargetReturn(ret.returns, 3, 2)
    /\ ret.frontier[3].ret = TargetReturn(ret.returns, 3, 0)

MaxWindow == 2       \* volatility_window: 0..MaxWindow
FeatureLen == MaxLen + 2   \* a price series has 0..FeatureLen observations

FeaturePrices == {1, 2, 8, -1}

Nan == [nan |-> TRUE, v |-> 0]
Float(x) == [nan |-> FALSE, v |-> x]

RECURSIVE Log2(_)
Log2(p) == IF p <= 1 THEN 0 ELSE 1 + Log2(p \div 2)

\* np.log(prices + 1e-10)
Log(p) == IF p > 0 THEN Float(Log2(p)) ELSE Nan

Sub(a, b) == IF a.nan \/ b.nan THEN Nan ELSE Float(a.v - b.v)

\* np.diff(np.log(prices + 1e-10))[i], i in 0 .. len(prices) - 2
ReturnAt(prices, i) == Sub(Log(prices[i + 2]), Log(prices[i + 1]))

\* len(np.diff(a))
DiffLen(a) == IF Len(a) = 0 THEN 0 ELSE Len(a) - 1

\* (np.diff(volumes) / (volumes[:-1] + 1e-10))[i]
VolChangeAt(volumes, i) ==
    Quot(Minus(volumes[i + 2], volumes[i + 1]), Plus(volumes[i + 1], Epsilon))

\* the slice returns[i - volatility_window : i] as its set of indices
VolatilityWindowWithCurrent(i, volatility_window) ==
    (i - volatility_window + 1)..i

VolatilityWindow(i, volatility_window) == (i - volatility_window)..(i - 1)

RECURSIVE SumOver(_, _, _)
SumOver(prices, idx, square) ==
    IF idx = {} THEN 0
    ELSE LET j == CHOOSE k \in idx : TRUE
             x == ReturnAt(prices, j).v
         IN  (IF square THEN x * x ELSE x) + SumOver(prices, idx \ {j}, square)

\* np.std(returns[i - volatility_window : i])
Std(prices, i, volatility_window) ==
    LET idx == VolatilityWindow(i, volatility_window)
    IN  IF idx = {} \/ \E j \in idx : ReturnAt(prices, j).nan THEN Nan
        ELSE Float(Cardinality(idx) * SumOver(prices, idx, TRUE)
                     - SumOver(prices, idx, FALSE) * SumOver(prices, idx, FALSE))

\* volatility[i]: nan unless the loop over range(volatility_window,
\* len(returns)) assigned it
VolatilityAt(prices, i, volatility_window) ==
    IF i >= volatility_window /\ i < DiffLen(prices)
    THEN Std(prices, i, volatility_window)
    ELSE Nan

\* the indices valid selects, in increasing order
RECURSIVE ValidIndices(_, _, _)
ValidIndices(prices, volatility_window, upto) ==
    IF upto = 0 THEN <<>>
    ELSE LET front == ValidIndices(prices, volatility_window, upto - 1)
         IN  IF VolatilityAt(prices, upto - 1, volatility_window).nan
             THEN front
             ELSE Append(front, upto - 1)

\* vol_change[valid] needs a mask as long as vol_change
BuildFeaturesRaises(prices, volumes) == DiffLen(prices) # DiffLen(volumes)

BuildFeatures(prices, volumes, volatility_window) ==
    LET valid == ValidIndices(prices, volatility_window, DiffLen(prices))
    IN  [k \in 1..Len(valid) |->
            [returns |-> ReturnAt(prices, valid[k]),
             volatility |-> VolatilityAt(prices, valid[k], volatility_window),
             vol_change |-> VolChangeAt(volumes, valid[k])]]

FeatureVolumes(m) ==
    { [i \in 1..m |-> Num(10 * i, 0)],
      [i \in 1..m |-> IF i = 1 THEN Num(0, -1) ELSE Num(5, 0)] }

InitFeatures ==
    /\ DetectorIdle
    /\ \E n \in 0..FeatureLen, w \in 0..MaxWindow :
          \E prices \in [1..n -> FeaturePrices],
             volumes \in FeatureVolumes(n) \cup FeatureVolumes(n + 1) :
              ret = [op |-> "_build_features", status |-> "call",
                     prices |-> prices, volumes |-> volumes,
                     volatility_window |-> w]

BuildFeaturesCall ==
    /\ ret.op = "_build_features" /\ ret.status = "call"
    /\ ret' = IF BuildFeaturesRaises(ret.prices, ret.volumes)
              THEN [ret EXCEPT !.status = "error"]
              ELSE [ret EXCEPT !.status = "ok"] @@
                   [features |-> BuildFeatures(ret.prices, ret.volumes,
                                               ret.volatility_window),
                    valid |-> ValidIndices(ret.prices, ret.volatility_window,
                                           DiffLen(ret.prices))]
    /\ UNCHANGED <<n_regimes, hmm, state_map, is_fitted, ever_fit>>

NextFeatures == BuildFeaturesCall

SpecFeatures == InitFeatures /\ [][NextFeatures]_vars

FeaturesDone ==
    /\ ret.op = "_build_features" /\ ret.status = "ok"
    /\ Len(ret.prices) = Len(ret.volumes)

\* sum over the pairs j < k of idx of (returns[j] - returns[k]) squared:
\* the number of returns times their sum of squared deviations
RECURSIVE PairSpread(_, _)
PairSpread(prices, idx) ==
    IF idx = {} THEN 0
    ELSE LET j == CHOOSE k \in idx : \A l \in idx : k <= l
             rest == idx \ {j}
             d(k) == ReturnAt(prices, j).v - ReturnAt(prices, k).v
             RECURSIVE Row(_)
             Row(ks) == IF ks = {} THEN 0
                        ELSE LET k == CHOOSE x \in ks : TRUE
                             IN  d(k) * d(k) + Row(ks \ {k})
         IN  Row(rest) + PairSpread(prices, rest)

\* row k of the result is the row of return index first + k - 1, with the
\* volatility of the w returns before that index
RowsFrom(first) ==
    \A k \in 1..Len(ret.features) :
        LET i == first + k - 1
            w == ret.volatility_window
        IN  /\ ret.valid[k] = i
            /\ ret.features[k].returns = ReturnAt(ret.prices, i)
            /\ ret.features[k].vol_change = VolChangeAt(ret.volumes, i)
            /\ ret.features[k].volatility
                   = Float(PairSpread(ret.prices, (i - w)..(i - 1)))

RowCount(n, w) == IF n - 1 - w > 0 THEN n - 1 - w ELSE 0

\* C25: _build_features on price and volume series of equal length n with
\* window w returns exactly max(0, n - 1 - w) rows, one per return index i
\* from w to n - 2 in increasing order, row i carrying the standard
\* deviation of the returns i - w .. i - 1.
C25_ExactRowCount ==
    FeaturesDone =>
        /\ Len(ret.features) = RowCount(Len(ret.prices), ret.volatility_window)
        /\ RowsFrom(ret.volatility_window)

\* C25, amended: the rows are those of the return indices i in w .. n - 2
\* whose w preceding returns are all defined, in increasing order and each
\* once, row i carrying the standard deviation of the returns i - w .. i - 1;
\* with w >= 1 and positive prices these are all max(0, n - 1 - w) indices,
\* and with w = 0 there is no row.
C25_RowsWithDefinedWindow ==
    FeaturesDone =>
        LET n == Len(ret.prices)
            w == ret.volatility_window
            kept == {i \in w..(n - 2) :
                        /\ w >= 1
                        /\ \A j \in (i - w)..(i - 1) : ~ReturnAt(ret.prices, j).nan}
        IN  /\ Len(ret.features) = Cardinality(kept)
            /\ {ret.valid[k] : k \in 1..Len(ret.valid)} = kept
            /\ \A k \in 1..(Len(ret.valid) - 1) : ret.valid[k] < ret.valid[k + 1]
            /\ \A k \in 1..Len(ret.features) :
                  LET i == ret.valid[k]
                  IN  /\ ret.features[k].returns = ReturnAt(ret.prices, i)
                      /\ ret.features[k].vol_change = VolChangeAt(ret.volumes, i)
                      /\ ret.features[k].volatility
                             = Float(PairSpread(ret.prices, (i - w)..(i - 1)))
            /\ (w >= 1 /\ \A i \in 1..n : ret.prices[i] > 0) =>
                  /\ Len(ret.features) = RowCount(n, w)
                  /\ RowsFrom(w)
            /\ w = 0 => Len(ret.features) = 0

\* five positive prices and window 2: two rows, of return indices 2 and 3,
\* with different volatilities
C25_Witness ==
    /\ FeaturesDone
    /\ Len(ret.prices) = 5 /\ ret.volatility_window = 2
    /\ \A i \in 1..5 : ret.prices[i] > 0
    /\ ret.valid = <<2, 3>>
    /\ ret.features[1].volatility # ret.features[2].volatility
    /\ ret.features[1].volatility.v > 0

(***************************************************************************)
(* A first fit() running in one thread while other threads call predict()  *)
(* and get_transition_matrix() on the same instance.  Every read or write  *)
(* of an attribute is one step (the interpreter runs one bytecode at a     *)
(* time and a thread sees the others' stores in the order they were made). *)
(* fit() runs the stages of FitOrder: _build_features, the HMM's parameter *)
(* initialisation, the end of its estimation, the assignment               *)
(* self._state_map = mapping of the dict _map_states built locally, and    *)
(* self._is_fitted = True; every stage but the last may raise.  Here ret   *)
(* holds the threads: fit_pc is the stage fit() is about to run (0 once it *)
(* raised), written the mapping it assigned, and readers each caller's     *)
(* call, position and what it has read.                                    *)
(***************************************************************************)
MaxReaders == 2      \* threads calling predict / get_transition_matrix

FitOrderFlagFirst == <<"features", "flag", "hmm_init", "hmm", "map">>

FitOrder == <<"features", "hmm_init", "hmm", "map", "flag">>

FitStage == IF ret.fit_pc \in 1..Len(FitOrder) THEN FitOrder[ret.fit_pc] ELSE "none"

IdleReader == [op |-> "none", pc |-> "idle", seen_hmm |-> "none", seen_map |-> EmptyMap]

InitConc ==
    /\ n_regimes \in 1..MaxRegimes
    /\ hmm = "unfit"
    /\ state_map = EmptyMap
    /\ is_fitted = FALSE
    /\ ever_fit = FALSE
    /\ ret = [op |-> "threads", status |-> "ok", fit_pc |-> 1,
              written |-> EmptyMap, readers |-> [r \in 1..MaxReaders |-> IdleReader]]

FitAdvance == ret' = [ret EXCEPT !.fit_pc = @ + 1]

\* features = self._build_features(...)
FitBuildFeatures ==
    /\ FitStage = "features"
    /\ FitAdvance
    /\ UNCHANGED <<n_regimes, hmm, state_map, is_fitted, ever_fit>>

\* self._hmm.fit(features): the parameters are initialised ...
FitHmmInit ==
    /\ FitStage = "hmm_init"
    /\ hmm' = "partial"
    /\ FitAdvance
    /\ UNCHANGED <<n_regimes, state_map, is_fitted, ever_fit>>

\* ... and re-estimated until the HMM is fitted
FitHmmDone ==
    /\ FitStage = "hmm"
    /\ hmm' = "fit"
    /\ FitAdvance
    /\ UNCHANGED <<n_regimes, state_map, is_fitted, ever_fit>>

\* self._map_states(features), ending in self._state_map = mapping
FitMapStates ==
    /\ FitStage = "map"
    /\ \E mapping \in {case.mapping : case \in FitCases[n_regimes]} :
          /\ state_map' = mapping
          /\ ret' = [ret EXCEPT !.fit_pc = @ + 1, !.written = mapping]
    /\ UNCHANGED <<n_regimes, hmm, is_fitted, ever_fit>>

\* self._is_fitted = True
FitSetFlag ==
    /\ FitStage = "flag"
    /\ is_fitted' = TRUE
    /\ FitAdvance
    /\ UNCHANGED <<n_regimes, hmm, state_map, ever_fit>>

\* return self
FitReturns ==
    /\ ret.fit_pc = Len(FitOrder) + 1
    /\ ever_fit' = TRUE
    /\ FitAdvance
    /\ UNCHANGED <<n_regimes, hmm, state_map, is_fitted>>

\* an exception in _build_features, self._hmm.fit or self._hmm.predict
FitRaises ==
    /\ FitStage \in {"features", "hmm_init", "hmm", "map"}
    /\ ret' = [ret EXCEPT !.fit_pc = 0]
    /\ UNCHANGED <<n_regimes, hmm, state_map, is_fitted, ever_fit>>

\* a caller starts predict() or get_transition_matrix():
\* if not self._is_fitted: raise RuntimeError
ReaderGuard(r) ==
    /\ ret.readers[r].pc \in {"idle", "rejected"}
    /\ \E op \in {"predict", "get_transition_matrix"} :
          ret' = [ret EXCEPT !.readers[r] =
                     [IdleReader EXCEPT !.op = op,
                          !.pc = IF is_fitted THEN "passed" ELSE "rejected"]]
    /\ UNCHANGED <<n_regimes, hmm, state_map, is_fitted, ever_fit>>

\* self._hmm.predict_proba(features) or self._hmm.transmat_.copy()
ReaderReadsHmm(r) ==
    /\ ret.readers[r].pc = "passed"
    /\ ret' = [ret EXCEPT !.readers[r].seen_hmm = hmm,
                          !.readers[r].pc = IF ret.readers[r].op = "predict"
                                            THEN "hmm_read" ELSE "done"]
    /\ UNCHANGED <<n_regimes, hmm, state_map, is_fitted, ever_fit>>

\* predict()'s self._state_map.get(...) look-ups
ReaderReadsMap(r) ==
    /\ ret.readers[r].pc = "hmm_read"
    /\ ret' = [ret EXCEPT !.readers[r].seen_map = state_map,
                          !.readers[r].pc = "done"]
    /\ UNCHANGED <<n_regimes, hmm, state_map, is_fitted, ever_fit>>

NextConc ==
    \/ FitBuildFeatures
    \/ FitHmmInit
    \/ FitHmmDone
    \/ FitMapStates
    \/ FitSetFlag
    \/ FitReturns
    \/ FitRaises
    \/ \E r \in 1..MaxReaders : ReaderGuard(r)
    \/ \E r \in 1..MaxReaders : ReaderReadsHmm(r)
    \/ \E r \in 1..MaxReaders : ReaderReadsMap(r)

SpecConc == InitConc /\ [][NextConc]_vars

PastGuard(r) == ret.readers[r].pc \in {"passed", "hmm_read", "done"}

\* a mapping as _map_states leaves it: the labels of the groups' first two
CompleteMap(map) ==
    Cardinality(DOMAIN map)
        = Min2(n_regimes \div 2) + Min2(n_regimes - n_regimes \div 2)

\* C30: fit() publishes the fitted flag last: while a first fit() runs
\* beside predict() and get_transition_matrix() calls of other threads, a
\* call that was not rejected as "not fitted" finds the fitted HMM and the
\* complete state map that fit wrote, never an empty or partial one.
C30_FlagPublishedLast ==
    /\ is_fitted =>
          /\ hmm = "fit"
          /\ state_map = ret.written /\ CompleteMap(state_map)
          /\ state_map # EmptyMap
    /\ \A r \in 1..MaxReaders :
          PastGuard(r) =>
              /\ is_fitted
              /\ ret.readers[r].pc \in {"hmm_read", "done"}
                    => ret.readers[r].seen_hmm = "fit"
              /\ (ret.readers[r].pc = "done" /\ ret.readers[r].op = "predict")
                    => (/\ ret.readers[r].seen_map = ret.written
                        /\ CompleteMap(ret.readers[r].seen_map))

\* before fit() has returned, one caller was rejected with the state map
\* already written and another has read the whole map in predict()
C30_Witness ==
    /\ ret.op = "threads" /\ ret.fit_pc = Len(FitOrder) + 1 /\ ~ever_fit
    /\ \E r, q \in 1..MaxReaders :
          /\ ret.readers[r].pc = "rejected"
          /\ ret.readers[q].pc = "done" /\ ret.readers[q].op = "predict"
          /\ ret.readers[q].seen_map = state_map
          /\ Cardinality(DOMAIN state_map) = 4

====
